---- MODULE Spec2Model ----
(***************************************************************************)
(* torchtnt/runner/state.py: the runtime state container of the training   *)
(* loop.  PhaseState is a dataclass whose __post_init__ validates five     *)
(* optional integer limits; State is the root aggregate holding an         *)
(* EntryPoint, a Timer, three optional PhaseState slots and the stop flag, *)
(* with stop() (log a warning, then set the flag) and the should_stop      *)
(* property.  stop() may be called from several execution contexts, so it  *)
(* is modelled as its two statements, interleaved with the driver's reads. *)
(*                                                                         *)
(* Optional[T] is modelled as a sequence of length at most one: None is    *)
(* the empty sequence and a present value x is <<x>>.                      *)
(***************************************************************************)
EXTENDS Integers, Sequences, FiniteSets, TLC

\* Limits passed to the constructor range over None and -MaxLimit..MaxLimit.
MaxLimit == 1
\* Number of execution contexts (callbacks, signal handlers) that call stop().
MaxStoppers == 2
\* Number of stop() calls made on one State.
MaxStopCalls == 3

None == << >>
Some(x) == <<x>>

\* class EntryPoint(Enum)
EntryPoint == {"FIT", "TRAIN", "EVALUATE", "PREDICT"}

\* The five Optional[int] fields of PhaseState, in declaration order.
LimitFields ==
  <<"max_epochs", "max_steps", "max_steps_per_epoch",
    "evaluate_every_n_steps", "evaluate_every_n_epochs">>

LimitFieldSet == {LimitFields[i] : i \in 1..Len(LimitFields)}

\* Optional[int] values handed to the PhaseState constructor.
OptInt == {None} \cup {Some(v) : v \in (0 - MaxLimit)..MaxLimit}

\* Iterable[Any] handles handed to the PhaseState constructor.
DataLoaders == {"dataloader"}

\* Any: the values a step_output can take ("None" is Python's None).
StepOutputs == {"None", "out"}

\* field(default_factory=Progress) / field(default_factory=Timer), and the
\* Progress and Timer objects a caller can pass instead of the default.
FreshProgress == "Progress()"
FreshTimer == "Timer()"
Progresses == {FreshProgress, "progress"}
Timers == {FreshTimer, "timer"}

\* The reference to the PhaseState object held in ps.
Ref == Some("ps")

VARIABLES
  state,     \* Optional State object of the current entry-point call
  ps,        \* Optional PhaseState object built by the current entry-point call
  pc,        \* per stop() caller: "idle", or "set" (warning logged, flag not yet written)
  calls,     \* number of stop() calls made on the current State
  warnings,  \* number of warning records _logger has emitted for the current State
  last,      \* the most recent call: its name, arguments, raised exception, return value
  passed     \* Optional: the arguments the current State was constructed with

vars == <<state, ps, pc, calls, warnings, last, passed>>

Stoppers == 1..MaxStoppers

Call(op, args, raised, ret) == [op |-> op, args |-> args, raised |-> raised, ret |-> ret]

----------------------------------------------------------------------------
\* A check that also rejects 0 (<= for <).
CheckRejectsZero(name, val) ==
  IF val # None /\ val[1] <= 0
    THEN Some([type |-> "ValueError", name |-> name, val |-> val[1]])
    ELSE None

\* _check_loop_condition(name, val): the raised ValueError, or None.
_check_loop_condition(name, val) ==
  IF val # None /\ val[1] < 0
    THEN Some([type |-> "ValueError", name |-> name, val |-> val[1]])
    ELSE None

\* The dataclass-generated PhaseState.__init__: every field from its argument.
PhaseStateFields(dataloader, progress, kw, step_output) ==
  [dataloader |-> dataloader,
   progress |-> progress,
   max_epochs |-> kw["max_epochs"],
   max_steps |-> kw["max_steps"],
   max_steps_per_epoch |-> kw["max_steps_per_epoch"],
   evaluate_every_n_steps |-> kw["evaluate_every_n_steps"],
   evaluate_every_n_epochs |-> kw["evaluate_every_n_epochs"],
   step_output |-> step_output]

\* A validation that leaves max_steps_per_epoch unchecked.
PostInitSkipsField(self) ==
  LET e1 == _check_loop_condition("max_epochs", self.max_epochs)
      e2 == _check_loop_condition("max_steps", self.max_steps)
      e4 == _check_loop_condition("evaluate_every_n_steps", self.evaluate_every_n_steps)
      e5 == _check_loop_condition("evaluate_every_n_epochs", self.evaluate_every_n_epochs)
  IN  IF e1 # None THEN e1
      ELSE IF e2 # None THEN e2
      ELSE IF e4 # None THEN e4
      ELSE e5

\* A validation that runs every check and reports the last failure.
PostInitReportsLast(self) ==
  LET e1 == _check_loop_condition("max_epochs", self.max_epochs)
      e2 == _check_loop_condition("max_steps", self.max_steps)
      e3 == _check_loop_condition("max_steps_per_epoch", self.max_steps_per_epoch)
      e4 == _check_loop_condition("evaluate_every_n_steps", self.evaluate_every_n_steps)
      e5 == _check_loop_condition("evaluate_every_n_epochs", self.evaluate_every_n_epochs)
  IN  IF e5 # None THEN e5
      ELSE IF e4 # None THEN e4
      ELSE IF e3 # None THEN e3
      ELSE IF e2 # None THEN e2
      ELSE e1

\* PhaseState.__post_init__: five checks in sequence; the first exception propagates.
__post_init__(self) ==
  LET e1 == _check_loop_condition("max_epochs", self.max_epochs)
      e2 == _check_loop_condition("max_steps", self.max_steps)
      e3 == _check_loop_condition("max_steps_per_epoch", self.max_steps_per_epoch)
      e4 == _check_loop_condition("evaluate_every_n_steps", self.evaluate_every_n_steps)
      e5 == _check_loop_condition("evaluate_every_n_epochs", self.evaluate_every_n_epochs)
  IN  IF e1 # None THEN e1
      ELSE IF e2 # None THEN e2
      ELSE IF e3 # None THEN e3
      ELSE IF e4 # None THEN e4
      ELSE e5

\* A State whose stop flag defaults to True.
StateFieldsStopped(entry_point, timer, train_state, eval_state, predict_state) ==
  [entry_point |-> entry_point,
   timer |-> timer,
   train_state |-> train_state,
   eval_state |-> eval_state,
   predict_state |-> predict_state,
   _should_stop |-> TRUE]

\* A State that ignores its entry_point argument.
StateFieldsIgnoresEntryPoint(entry_point, timer, train_state, eval_state, predict_state) ==
  [entry_point |-> "FIT",
   timer |-> timer,
   train_state |-> train_state,
   eval_state |-> eval_state,
   predict_state |-> predict_state,
   _should_stop |-> FALSE]

\* A State that stores eval_state and predict_state in each other's slot.
StateFieldsSwapsSlots(entry_point, timer, train_state, eval_state, predict_state) ==
  [entry_point |-> entry_point,
   timer |-> timer,
   train_state |-> train_state,
   eval_state |-> predict_state,
   predict_state |-> eval_state,
   _should_stop |-> FALSE]

\* The dataclass-generated State.__init__; _should_stop takes its default.
StateFields(entry_point, timer, train_state, eval_state, predict_state) ==
  [entry_point |-> entry_point,
   timer |-> timer,
   train_state |-> train_state,
   eval_state |-> eval_state,
   predict_state |-> predict_state,
   _should_stop |-> FALSE]

\* State.should_stop (property)
should_stop(self) == self._should_stop

----------------------------------------------------------------------------
Init ==
  /\ state = None
  /\ ps = None
  /\ pc = [t \in Stoppers |-> "idle"]
  /\ calls = 0
  /\ warnings = 0
  /\ last = Call("none", None, None, None)
  /\ passed = None

\* The entry point has raised nothing and has built neither object yet.
Building == state = None /\ ps = None /\ last.raised = None

\* PhaseState(dataloader, progress, **kw, step_output=...): __init__ then __post_init__.
\* On an exception no object is bound; on success the entry point holds it in ps.
NewPhaseState(dataloader, progress, kw, step_output) ==
  /\ Building
  /\ LET self == PhaseStateFields(dataloader, progress, kw, step_output)
         exc == __post_init__(self)
     IN  /\ ps' = IF exc = None THEN Some(self) ELSE None
         /\ last' = Call("PhaseState",
                         Some([dataloader |-> dataloader, progress |-> progress,
                               kw |-> kw, step_output |-> step_output]),
                         exc, None)
  /\ UNCHANGED <<state, pc, calls, warnings, passed>>

\* Keyword arguments with one limit given and the others left at their default.
OneLimit(f, v) == [g \in LimitFieldSet |-> IF g = f THEN v ELSE None]

NewPhaseStateKw ==
  /\ Building
  /\ \E dl \in DataLoaders, pr \in Progresses, f \in LimitFieldSet,
        v \in OptInt, so \in StepOutputs :
       NewPhaseState(dl, pr, OneLimit(f, v), so)

NewPhaseStateAny ==
  /\ Building
  /\ \E dl \in DataLoaders, pr \in Progresses, kw \in [LimitFieldSet -> OptInt],
        so \in StepOutputs :
       NewPhaseState(dl, pr, kw, so)

\* The PhaseState arguments an entry point can hand to State.
PhaseArgs == IF ps = None THEN {None} ELSE {None, Ref}

\* State(entry_point, timer, train_state, eval_state, predict_state)
NewState(entry_point, timer, train_state, eval_state, predict_state) ==
  /\ state = None
  /\ last.raised = None
  /\ state' = Some(StateFields(entry_point, timer, train_state, eval_state, predict_state))
  /\ passed' = Some([entry_point |-> entry_point, timer |-> timer,
                     train_state |-> train_state, eval_state |-> eval_state,
                     predict_state |-> predict_state])
  /\ calls' = 0
  /\ warnings' = 0
  /\ last' = Call("State", None, None, None)
  /\ UNCHANGED <<ps, pc>>

NewStateAny ==
  \E ep \in EntryPoint, tm \in Timers, tr \in PhaseArgs, ev \in PhaseArgs,
     pr \in PhaseArgs :
    NewState(ep, tm, tr, ev, pr)

\* A stop() that logs only when the flag is not yet set.
StopLogOnce(t) ==
  /\ state # None
  /\ pc[t] = "idle"
  /\ calls < MaxStopCalls
  /\ calls' = calls + 1
  /\ warnings' = IF should_stop(state[1]) THEN warnings ELSE warnings + 1
  /\ pc' = [pc EXCEPT ![t] = "set"]
  /\ last' = Call("stop", None, None, None)
  /\ UNCHANGED <<state, ps, passed>>

\* State.stop, first statement: _logger.warning("Received signal to stop")
StopLog(t) ==
  /\ state # None
  /\ pc[t] = "idle"
  /\ calls < MaxStopCalls
  /\ calls' = calls + 1
  /\ warnings' = warnings + 1
  /\ pc' = [pc EXCEPT ![t] = "set"]
  /\ last' = Call("stop", None, None, None)
  /\ UNCHANGED <<state, ps, passed>>

\* A stop() that toggles the flag.
StopSetToggles(t) ==
  /\ state # None
  /\ pc[t] = "set"
  /\ state' = Some([state[1] EXCEPT !._should_stop = ~state[1]._should_stop])
  /\ pc' = [pc EXCEPT ![t] = "idle"]
  /\ last' = Call("stop", None, None, None)
  /\ UNCHANGED <<ps, calls, warnings, passed>>

\* A stop() that also clears the step_output of the phase object.
StopSetClearsOutput(t) ==
  /\ state # None
  /\ pc[t] = "set"
  /\ state' = Some([state[1] EXCEPT !._should_stop = TRUE])
  /\ ps' = IF ps = None THEN ps ELSE Some([ps[1] EXCEPT !.step_output = "None"])
  /\ pc' = [pc EXCEPT ![t] = "idle"]
  /\ last' = Call("stop", None, None, None)
  /\ UNCHANGED <<calls, warnings, passed>>

\* State.stop, second statement: self._should_stop = True
StopSet(t) ==
  /\ state # None
  /\ pc[t] = "set"
  /\ state' = Some([state[1] EXCEPT !._should_stop = TRUE])
  /\ pc' = [pc EXCEPT ![t] = "idle"]
  /\ last' = Call("stop", None, None, None)
  /\ UNCHANGED <<ps, calls, warnings, passed>>

\* A should_stop read that resets the flag.
ShouldStopResets ==
  /\ state # None
  /\ last' = Call("should_stop", None, None, Some(should_stop(state[1])))
  /\ state' = Some([state[1] EXCEPT !._should_stop = FALSE])
  /\ UNCHANGED <<ps, pc, calls, warnings, passed>>

\* The driver polls state.should_stop.
ShouldStop ==
  /\ state # None
  /\ last' = Call("should_stop", None, None, Some(should_stop(state[1])))
  /\ UNCHANGED <<state, ps, pc, calls, warnings, passed>>

\* The driver stores the output of the user's *_step method in a phase's step_output.
SetStepOutput(slot, out) ==
  /\ state # None
  /\ state[1][slot] # None
  /\ ps' = Some([ps[1] EXCEPT !.step_output = out])
  /\ last' = Call("step_output", None, None, None)
  /\ UNCHANGED <<state, pc, calls, warnings, passed>>

SetStepOutputAny ==
  \E slot \in {"train_state", "eval_state", "predict_state"}, out \in StepOutputs :
    SetStepOutput(slot, out)

\* The ValueError of a failed construction propagates out of the entry point.
Propagate ==
  /\ last.raised # None
  /\ last' = Call("return", None, None, None)
  /\ UNCHANGED <<state, ps, pc, calls, warnings, passed>>

\* The entry point returns: its State and PhaseState are erased.
EndEntryPoint ==
  /\ state # None
  /\ \A t \in Stoppers : pc[t] = "idle"
  /\ state' = None
  /\ ps' = None
  /\ passed' = None
  /\ calls' = 0
  /\ warnings' = 0
  /\ last' = Call("return", None, None, None)
  /\ UNCHANGED pc

Next ==
  \/ NewPhaseStateKw
  \/ NewStateAny
  \/ \E t \in Stoppers : StopLog(t)
  \/ \E t \in Stoppers : StopSet(t)
  \/ ShouldStop
  \/ SetStepOutputAny
  \/ Propagate
  \/ EndEntryPoint

Spec == Init /\ [][Next]_vars

\* PhaseState construction alone, over every combination of the five limits.
NextPhase == NewPhaseStateAny \/ Propagate

SpecPhase == Init /\ [][NextPhase]_vars

----------------------------------------------------------------------------
\* Properties.

IsNegative(val) == val # None /\ val[1] < 0

HasNegative(kw) == \E f \in LimitFieldSet : IsNegative(kw[f])

\* The order in which the limits are checked.
CheckOrder ==
  <<"max_epochs", "max_steps", "max_steps_per_epoch",
    "evaluate_every_n_steps", "evaluate_every_n_epochs">>

\* The first field, in CheckOrder, that holds a negative value.
FirstNegative(kw) ==
  LET I == {i \in 1..Len(CheckOrder) : IsNegative(kw[CheckOrder[i]])}
  IN  CheckOrder[CHOOSE i \in I : \A j \in I : i <= j]

\* stop() calls that have returned.
Completed == calls - Cardinality({t \in Stoppers : pc[t] = "set"})

\* C1: constructing a PhaseState raises ValueError when any of the five limits
\* is negative, and succeeds, with every limit stored as given, when every
\* limit is None, 0 or positive.
C1_NegativeLimitRejected ==
  last.op = "PhaseState" =>
    LET kw == last.args[1].kw
    IN  /\ HasNegative(kw) =>
             /\ last.raised # None
             /\ last.raised[1].type = "ValueError"
             /\ ps = None
        /\ ~HasNegative(kw) =>
             /\ last.raised = None
             /\ ps # None
             /\ \A f \in LimitFieldSet : ps[1][f] = kw[f]

C1_Witness ==
  /\ last.op = "PhaseState"
  /\ last.raised # None
  /\ last.args[1].kw["max_epochs"] = Some(0)
  /\ last.args[1].kw["max_steps"] = Some(1)
  /\ last.args[1].kw["max_steps_per_epoch"] = None
  /\ last.args[1].kw["evaluate_every_n_epochs"] = Some(-1)

\* C2: right after State is constructed, should_stop is False, whatever the
\* entry point.
C2_FreshStateNotStopped ==
  last.op = "State" => (state # None /\ should_stop(state[1]) = FALSE)

C2_Witness ==
  /\ last.op = "State"
  /\ state[1].entry_point = "PREDICT"
  /\ state[1].train_state = Ref

\* C3: within one State the stop flag only goes from False to True: a step
\* that completes a stop() leaves it True, and once True no step (a further
\* stop(), a should_stop read) makes it False again.
C3_StopFlagOneWay ==
  [][(state # None /\ state' # None) =>
       (((\E t \in Stoppers : pc[t] = "set" /\ pc'[t] = "idle")
           \/ should_stop(state[1]))
         => should_stop(state'[1]))]_vars

C3_Witness ==
  /\ state # None
  /\ calls >= 2
  /\ Completed = calls
  /\ last.op = "should_stop"
  /\ last.ret = Some(TRUE)

\* C4: with concurrent stop() callers and no lock, a should_stop read made
\* after some stop() has returned yields True, and a read that yields True was
\* made after some stop() had started.
C4_NoLostStop ==
  (state # None /\ last.op = "should_stop") =>
    /\ Completed > 0 => last.ret = Some(TRUE)
    /\ last.ret = Some(TRUE) => calls > 0

C4_Witness ==
  /\ state # None
  /\ last.op = "should_stop"
  /\ last.ret = Some(TRUE)
  /\ Completed >= 1
  /\ Cardinality({t \in Stoppers : pc[t] = "set"}) >= 1

\* C5: a step of stop() changes no field of the State other than the stop
\* flag, and nothing of the PhaseState objects.
C5_StopFrame ==
  [][(pc' # pc) =>
       /\ ps' = ps
       /\ state # None
       /\ state' # None
       /\ state'[1].entry_point = state[1].entry_point
       /\ state'[1].timer = state[1].timer
       /\ state'[1].train_state = state[1].train_state
       /\ state'[1].eval_state = state[1].eval_state
       /\ state'[1].predict_state = state[1].predict_state]_vars

C5_Witness ==
  /\ state # None
  /\ should_stop(state[1])
  /\ Completed >= 1
  /\ state[1].train_state = Ref
  /\ ps[1].step_output = "out"

\* C6: every limit of a constructed PhaseState is None or at least 0, in every
\* state the object goes through.
C6_LimitsNonNegative ==
  ps # None => \A f \in LimitFieldSet : ~IsNegative(ps[1][f])

C6_Witness ==
  /\ ps # None
  /\ state # None
  /\ state[1].eval_state = Ref
  /\ ps[1].evaluate_every_n_steps = Some(0)
  /\ ps[1].step_output = "out"
  /\ should_stop(state[1])

\* C7: the entry_point of a State is the value it was constructed with, for as
\* long as the State lives.
C7_EntryPointFixed ==
  state # None => (passed # None /\ state[1].entry_point = passed[1].entry_point)

C7_Witness ==
  /\ state # None
  /\ state[1].entry_point = "EVALUATE"
  /\ should_stop(state[1])
  /\ last.op = "step_output"

\* C8: State construction never raises, and each of the three phase slots
\* reads exactly what was passed for it.
C8_SlotsAsPassed ==
  /\ last.op = "State" => (last.raised = None /\ state # None)
  /\ state # None =>
       /\ passed # None
       /\ state[1].train_state = passed[1].train_state
       /\ state[1].eval_state = passed[1].eval_state
       /\ state[1].predict_state = passed[1].predict_state

C8_Witness ==
  /\ last.op = "State"
  /\ state[1].entry_point = "TRAIN"
  /\ state[1].train_state = None
  /\ state[1].eval_state = Ref
  /\ state[1].predict_state = None

\* C9: the number of warnings logged equals the number of stop() calls made;
\* a should_stop read logs none.
C9_OneWarningPerStop ==
  state # None => warnings = calls

C9_Witness ==
  /\ state # None
  /\ calls >= 2
  /\ warnings >= 2
  /\ should_stop(state[1])
  /\ last.op = "should_stop"

\* C10: a failed construction raises one error, naming the first negative
\* field in check order and its value.
C10_FirstNegativeReported ==
  (last.op = "PhaseState" /\ last.raised # None) =>
    LET kw == last.args[1].kw
    IN  /\ Len(last.raised) = 1
        /\ HasNegative(kw)
        /\ last.raised[1].name = FirstNegative(kw)
        /\ last.raised[1].val = kw[FirstNegative(kw)][1]

C10_Witness ==
  /\ last.op = "PhaseState"
  /\ last.raised # None
  /\ last.raised[1].name = "max_steps"
  /\ last.args[1].kw["max_epochs"] = Some(0)
  /\ IsNegative(last.args[1].kw["evaluate_every_n_steps"])

====
